---- MODULE Spec2Model ----
(***************************************************************************)
(* Plugin subsystem of scriptor.py: Plugin, PluginAPI, PluginManager and   *)
(* the Hooks adapter.                                                      *)
(*                                                                         *)
(* The plugins root is a map from entry name to what is stored under that  *)
(* name; the plugin table is the insertion-ordered dict self.plugins,      *)
(* kept as a sequence of Plugin records.  A plugin's code is described by  *)
(* what it does when it is loaded (top-level execution, register) and by   *)
(* what each callback does when it is invoked (return or raise).  Failures *)
(* of plugin code are Exception-derived, the class every handler of the    *)
(* manager catches.                                                        *)
(***************************************************************************)
EXTENDS Integers, Sequences, FiniteSets, TLC

VARIABLES disk, plugins, last

vars == <<disk, plugins, last>>

(***************************************************************************)
(* Bounds                                                                  *)
(***************************************************************************)
\* most names that installs have brought to the plugins root or the plugin
\* table and that are still in one of them
MaxInstalled == 2

(***************************************************************************)
(* Plugin code                                                             *)
(***************************************************************************)
MAIN == "plugin-main.py"

HookNames == {"on_open", "on_save", "on_event"}

\* callbacks that raise when they are invoked
RaisingCallbacks == {"f2", "g1"}

\* the file paths the host reports to the bridge
Paths == {"/tmp/f.py", "/tmp/g.py"}

\* What a directory (or an archive root) holds.  files: the file names at
\* its root; exec: outcome of the top-level execution of plugin-main.py;
\* hasRegister: the module defines register; script: the register_hook
\* calls register(api) makes, in order; regRaises: register raises after
\* making them.
Content(src) ==
  CASE src = "pkgA" ->
         [files |-> {MAIN, "README"}, exec |-> "ok", hasRegister |-> TRUE,
          script |-> << <<"on_open", "f1">>, <<"on_open", "f2">>,
                        <<"on_save", "f3">>, <<"on_open", "f1">> >>,
          regRaises |-> FALSE]
    [] src = "pkgB" ->
         [files |-> {MAIN}, exec |-> "ok", hasRegister |-> TRUE,
          script |-> << <<"on_save", "g1">>, <<"on_save", "g2">>,
                        <<"on_event", "g3">> >>,
          regRaises |-> FALSE]
    [] src = "pkgNoMain" ->
         [files |-> {"README"}, exec |-> "ok", hasRegister |-> TRUE,
          script |-> << >>, regRaises |-> FALSE]
    [] src = "pkgBadExec" ->
         [files |-> {MAIN}, exec |-> "raise", hasRegister |-> TRUE,
          script |-> << >>, regRaises |-> FALSE]
    [] src = "pkgNoRegister" ->
         [files |-> {MAIN}, exec |-> "ok", hasRegister |-> FALSE,
          script |-> << >>, regRaises |-> FALSE]
    [] src = "pkgPartial" ->
         [files |-> {MAIN}, exec |-> "ok", hasRegister |-> TRUE,
          script |-> << <<"on_open", "k1">> >>, regRaises |-> TRUE]
    [] OTHER ->
         [files |-> {}, exec |-> "ok", hasRegister |-> FALSE,
          script |-> << >>, regRaises |-> FALSE]

\* The archives the user can point install at: stem is Path(scpl_path).stem,
\* exists tells whether the path is there, src names the archive's content.
Archives ==
  { [stem |-> "a",   exists |-> TRUE,  src |-> "pkgA"],
    [stem |-> "a_1", exists |-> TRUE,  src |-> "pkgB"],
    [stem |-> "c",   exists |-> TRUE,  src |-> "pkgNoMain"],
    [stem |-> "c",   exists |-> TRUE,  src |-> "pkgPartial"],
    [stem |-> "c",   exists |-> FALSE, src |-> "none"] }


\* every callback a plugin of the catalogue can register
Callbacks == {"f1", "f2", "f3", "g1", "g2", "g3", "k1"}

(***************************************************************************)
(* Paths and the plugins root                                              *)
(***************************************************************************)
PLUGINS_DIR == <<"plugins">>

\* PLUGINS_DIR / n
Join(dir, n) == Append(dir, n)

\* path.name, the last component of a path
PathName(path) == path[Len(path)]

\* path.exists() for a path directly under the plugins root
PathExists(d, path) ==
  /\ SubSeq(path, 1, Len(path) - 1) = PLUGINS_DIR
  /\ PathName(path) \in DOMAIN d

\* p.is_dir()
IsDir(d, path) == PathExists(d, path) /\ d[PathName(path)].isDir

\* the files at the root of the directory path (none if it is no directory)
DirFiles(d, path) ==
  IF IsDir(d, path) THEN Content(d[PathName(path)].src).files ELSE {}

\* a function without the key k
Without(f, k) == [x \in (DOMAIN f) \ {k} |-> f[x]]

(***************************************************************************)
(* Plugin and PluginAPI                                                    *)
(***************************************************************************)
\* Plugin.__init__: hooks starts as the empty dict
Plugin(name, path) == [name |-> name, path |-> path, hooks |-> << >>]

\* register_hook that keeps one entry per callback
register_hook_dedup(hooks, name, func) ==
  LET h1 == IF name \notin DOMAIN hooks THEN hooks @@ (name :> << >>) ELSE hooks
  IN  IF \E j \in 1..Len(h1[name]) : h1[name][j] = func
      THEN h1
      ELSE [h1 EXCEPT ![name] = Append(@, func)]

\* PluginAPI.register_hook on the hooks dict of the owning plugin
register_hook(hooks, name, func) ==
  LET h1 == IF name \notin DOMAIN hooks THEN hooks @@ (name :> << >>) ELSE hooks
  IN  [h1 EXCEPT ![name] = Append(@, func)]

\* module.register(api): the register_hook calls of the plugin, in order
RECURSIVE register(_, _)
register(hooks, script) ==
  IF script = << >> THEN hooks
  ELSE register(register_hook(hooks, Head(script)[1], Head(script)[2]),
                Tail(script))

(***************************************************************************)
(* The plugin table: self.plugins, a dict in insertion order               *)
(***************************************************************************)
Names(tbl) == {tbl[i].name : i \in 1..Len(tbl)}

\* name in self.plugins
Has(tbl, name) == name \in Names(tbl)

\* self.plugins[name]
Get(tbl, name) == tbl[CHOOSE i \in 1..Len(tbl) : tbl[i].name = name]

\* self.plugins[name] = plugin: an existing key keeps its place and gets the
\* new value, a new key goes to the end
DictSet(tbl, name, plugin) ==
  IF Has(tbl, name)
  THEN [i \in 1..Len(tbl) |-> IF tbl[i].name = name THEN plugin ELSE tbl[i]]
  ELSE Append(tbl, plugin)

\* self.plugins.clear()
DictClear(tbl) == << >>

\* self.plugins.pop(name, None)
DictPop(tbl, name) == SelectSeq(tbl, LAMBDA r : r.name # name)

(***************************************************************************)
(* PluginManager                                                           *)
(***************************************************************************)
\* load_plugin_from_dir that stores the record before it calls register
load_plugin_from_dir_early(tbl, d, path) ==
  LET name   == PathName(path)
      plugin == Plugin(name, path)
      c      == IF IsDir(d, path) THEN Content(d[name].src) ELSE Content("none")
      loaded == [plugin EXCEPT !.hooks = register(@, c.script)]
      stored == DictSet(tbl, name, loaded)
  IN  IF MAIN \notin DirFiles(d, path)
      THEN [err |-> "FileNotFoundError", plugins |-> tbl, plugin |-> plugin]
      ELSE IF c.exec = "raise"
      THEN [err |-> "RuntimeError: executing", plugins |-> tbl, plugin |-> plugin]
      ELSE IF ~c.hasRegister
      THEN [err |-> "RuntimeError: no register", plugins |-> tbl,
            plugin |-> plugin]
      ELSE IF c.regRaises
      THEN [err |-> "RuntimeError: register failed", plugins |-> stored,
            plugin |-> loaded]
      ELSE [err |-> "none", plugins |-> stored, plugin |-> loaded]

\* load_plugin_from_dir that empties the hook map when register raises
load_plugin_from_dir_rollback(tbl, d, path) ==
  LET name   == PathName(path)
      plugin == Plugin(name, path)
      c      == IF IsDir(d, path) THEN Content(d[name].src) ELSE Content("none")
      loaded == [plugin EXCEPT !.hooks = register(@, c.script)]
  IN  IF MAIN \notin DirFiles(d, path)
      THEN [err |-> "FileNotFoundError", plugins |-> tbl, plugin |-> plugin]
      ELSE IF c.exec = "raise"
      THEN [err |-> "RuntimeError: executing", plugins |-> tbl, plugin |-> plugin]
      ELSE IF ~c.hasRegister
      THEN [err |-> "RuntimeError: no register", plugins |-> tbl,
            plugin |-> plugin]
      ELSE IF c.regRaises
      THEN [err |-> "RuntimeError: register failed", plugins |-> tbl,
            plugin |-> plugin]
      ELSE [err |-> "none", plugins |-> DictSet(tbl, name, loaded),
            plugin |-> loaded]

\* load_plugin_from_dir that goes on with the record already in the table
\* under the name instead of building a new one
load_plugin_from_dir_reuse(tbl, d, path) ==
  LET name   == PathName(path)
      plugin == IF Has(tbl, name) THEN Get(tbl, name) ELSE Plugin(name, path)
      c      == IF IsDir(d, path) THEN Content(d[name].src) ELSE Content("none")
      loaded == [plugin EXCEPT !.hooks = register(@, c.script)]
  IN  IF MAIN \notin DirFiles(d, path)
      THEN [err |-> "FileNotFoundError", plugins |-> tbl, plugin |-> plugin]
      ELSE IF c.exec = "raise"
      THEN [err |-> "RuntimeError: executing", plugins |-> tbl, plugin |-> plugin]
      ELSE IF ~c.hasRegister
      THEN [err |-> "RuntimeError: no register", plugins |-> tbl,
            plugin |-> plugin]
      ELSE IF c.regRaises
      THEN [err |-> "RuntimeError: register failed", plugins |-> tbl,
            plugin |-> loaded]
      ELSE [err |-> "none", plugins |-> DictSet(tbl, name, loaded),
            plugin |-> loaded]

\* load_plugin_from_dir(path) on table tbl and root d: the error raised
\* ("none" when it returns), the table afterwards, and the Plugin object the
\* call built, with the hooks its PluginAPI has put on it by then
load_plugin_from_dir(tbl, d, path) ==
  LET name   == PathName(path)
      plugin == Plugin(name, path)
      c      == IF IsDir(d, path) THEN Content(d[name].src) ELSE Content("none")
      loaded == [plugin EXCEPT !.hooks = register(@, c.script)]
  IN  IF MAIN \notin DirFiles(d, path)
      THEN [err |-> "FileNotFoundError", plugins |-> tbl, plugin |-> plugin]
      ELSE IF c.exec = "raise"
      THEN [err |-> "RuntimeError: executing", plugins |-> tbl, plugin |-> plugin]
      ELSE IF ~c.hasRegister
      THEN [err |-> "RuntimeError: no register", plugins |-> tbl,
            plugin |-> plugin]
      ELSE IF c.regRaises
      THEN [err |-> "RuntimeError: register failed", plugins |-> tbl,
            plugin |-> loaded]
      ELSE [err |-> "none", plugins |-> DictSet(tbl, name, loaded),
            plugin |-> loaded]

\* the loop without the try: the first failing load ends it
RECURSIVE load_each_no_try(_, _, _)
load_each_no_try(tbl, d, order) ==
  IF order = << >> THEN tbl
  ELSE LET p == Join(PLUGINS_DIR, Head(order))
           r == load_plugin_from_dir(tbl, d, p)
       IN  IF ~IsDir(d, p) THEN load_each_no_try(tbl, d, Tail(order))
           ELSE IF r.err # "none" THEN tbl
           ELSE load_each_no_try(r.plugins, d, Tail(order))

\* the loop of load_all_plugins over the entries in iteration order: a
\* failing load is printed and the loop goes on
RECURSIVE load_each(_, _, _)
load_each(tbl, d, order) ==
  IF order = << >> THEN tbl
  ELSE LET p == Join(PLUGINS_DIR, Head(order))
       IN  IF IsDir(d, p)
           THEN load_each(load_plugin_from_dir(tbl, d, p).plugins, d, Tail(order))
           ELSE load_each(tbl, d, Tail(order))

\* load_all_plugins that keeps the records it finds in the table
load_all_plugins_no_clear(tbl, d, order) == load_each(tbl, d, order)

\* load_all_plugins: clear the table, then load every subdirectory
load_all_plugins(tbl, d, order) == load_each(DictClear(tbl), d, order)

\* the while loop of install_plugin looking for a free destination
RECURSIVE next_free(_, _, _)
next_free(d, base, idx) ==
  LET dest == Join(PLUGINS_DIR, base \o "_" \o ToString(idx))
  IN  IF PathExists(d, dest) THEN next_free(d, base, idx + 1) ELSE dest

\* a destination chosen without looking at what exists
free_dest_no_check(d, base) == Join(PLUGINS_DIR, base)

free_dest(d, base) ==
  IF PathExists(d, Join(PLUGINS_DIR, base))
  THEN next_free(d, base, 1)
  ELSE Join(PLUGINS_DIR, base)

\* z.extractall(dest): dest becomes a directory holding the archive content
extractall(d, dest, src) ==
  (PathName(dest) :> [isDir |-> TRUE, src |-> src]) @@ d

\* install_plugin that unpacks the archive before it looks for the entrypoint
install_plugin_extract_first(tbl, d, scpl) ==
  IF ~scpl.exists
  THEN [err |-> "FileNotFoundError", plugins |-> tbl, disk |-> d, dest |-> << >>]
  ELSE LET dest == free_dest(d, scpl.stem)
           d2   == extractall(d, dest, scpl.src)
           r    == load_plugin_from_dir(tbl, d2, dest)
       IN  IF MAIN \notin Content(scpl.src).files
           THEN [err |-> "RuntimeError: no main in archive", plugins |-> tbl,
                 disk |-> d2, dest |-> << >>]
           ELSE [err |-> r.err, plugins |-> r.plugins, disk |-> d2,
                 dest |-> dest]

\* install_plugin(scpl_path)
install_plugin(tbl, d, scpl) ==
  IF ~scpl.exists
  THEN [err |-> "FileNotFoundError", plugins |-> tbl, disk |-> d, dest |-> << >>]
  ELSE IF MAIN \notin Content(scpl.src).files
  THEN [err |-> "RuntimeError: no main in archive", plugins |-> tbl, disk |-> d,
        dest |-> << >>]
  ELSE LET dest == free_dest(d, scpl.stem)
           d2   == extractall(d, dest, scpl.src)
           r    == load_plugin_from_dir(tbl, d2, dest)
       IN  [err |-> r.err, plugins |-> r.plugins, disk |-> d2, dest |-> dest]

\* shutil.rmtree(path)
rmtree(d, path) ==
  IF ~PathExists(d, path) THEN [err |-> "FileNotFoundError", disk |-> d]
  ELSE IF ~IsDir(d, path) THEN [err |-> "NotADirectoryError", disk |-> d]
  ELSE [err |-> "none", disk |-> Without(d, PathName(path))]

\* uninstall_plugin that deletes the directory of an unknown name as well
uninstall_plugin_rm_unknown(tbl, d, name) ==
  IF ~Has(tbl, name)
  THEN [err |-> "KeyError", plugins |-> tbl, disk |-> Without(d, name)]
  ELSE LET path == Get(tbl, name).path
           r    == rmtree(d, path)
       IN  [err |-> r.err, plugins |-> DictPop(tbl, name), disk |-> r.disk]

\* uninstall_plugin that leaves the directory on disk
uninstall_plugin_keep_dir(tbl, d, name) ==
  IF ~Has(tbl, name)
  THEN [err |-> "KeyError", plugins |-> tbl, disk |-> d]
  ELSE [err |-> "none", plugins |-> DictPop(tbl, name), disk |-> d]

\* uninstall_plugin that deletes the directory and forgets the record
uninstall_plugin_keep_record(tbl, d, name) ==
  IF ~Has(tbl, name)
  THEN [err |-> "KeyError", plugins |-> tbl, disk |-> d]
  ELSE LET path == Get(tbl, name).path
           r    == rmtree(d, path)
       IN  [err |-> r.err, plugins |-> tbl, disk |-> r.disk]

\* uninstall_plugin that deletes the directory first and drops the record
\* only when the deletion went through
uninstall_plugin_rm_first(tbl, d, name) ==
  IF ~Has(tbl, name)
  THEN [err |-> "KeyError", plugins |-> tbl, disk |-> d]
  ELSE LET path == Get(tbl, name).path
           r    == rmtree(d, path)
       IN  [err |-> r.err,
            plugins |-> IF r.err = "none" THEN DictPop(tbl, name) ELSE tbl,
            disk |-> r.disk]

\* uninstall_plugin(name)
uninstall_plugin(tbl, d, name) ==
  IF ~Has(tbl, name)
  THEN [err |-> "KeyError", plugins |-> tbl, disk |-> d]
  ELSE LET path == Get(tbl, name).path
           r    == rmtree(d, path)
       IN  [err |-> r.err, plugins |-> DictPop(tbl, name), disk |-> r.disk]

\* one f(*args, **kwargs) inside the try of call_hook
Invoke(plugin, f, args, kwargs) ==
  [plugin |-> plugin.name, f |-> f, args |-> args, kwargs |-> kwargs,
   raised |-> f \in RaisingCallbacks]

\* the inner loop without the try: the first raising callback ends it
RECURSIVE call_funcs_no_try(_, _, _, _)
call_funcs_no_try(plugin, funcs, args, kwargs) ==
  IF funcs = << >> THEN [log |-> << >>, err |-> "none"]
  ELSE LET e == Invoke(plugin, Head(funcs), args, kwargs)
       IN  IF e.raised THEN [log |-> <<e>>, err |-> "Exception"]
           ELSE LET rest == call_funcs_no_try(plugin, Tail(funcs), args, kwargs)
                IN  [log |-> <<e>> \o rest.log, err |-> rest.err]

\* the inner loop of call_hook over funcs: the invocations made, and whether
\* an exception left the loop
RECURSIVE call_funcs(_, _, _, _)
call_funcs(plugin, funcs, args, kwargs) ==
  IF funcs = << >> THEN [log |-> << >>, err |-> "none"]
  ELSE LET e    == Invoke(plugin, Head(funcs), args, kwargs)
           rest == call_funcs(plugin, Tail(funcs), args, kwargs)
       IN  [log |-> <<e>> \o rest.log, err |-> rest.err]

\* the outer loop of call_hook over list(self.plugins.values())
RECURSIVE call_plugins(_, _, _, _)
call_plugins(tbl, hook_name, args, kwargs) ==
  IF tbl = << >> THEN [log |-> << >>, err |-> "none"]
  ELSE LET plugin == Head(tbl)
           r == IF hook_name \notin DOMAIN plugin.hooks
                   \/ plugin.hooks[hook_name] = << >>
                THEN [log |-> << >>, err |-> "none"]
                ELSE call_funcs(plugin, plugin.hooks[hook_name], args, kwargs)
       IN  IF r.err # "none" THEN r
           ELSE LET rest == call_plugins(Tail(tbl), hook_name, args, kwargs)
                IN  [log |-> r.log \o rest.log, err |-> rest.err]

\* call_hook(hook_name, *args, **kwargs)
call_hook(tbl, hook_name, args, kwargs) ==
  call_plugins(tbl, hook_name, args, kwargs)

(***************************************************************************)
(* Hooks adapter: the hook name and arguments each method hands on         *)
(***************************************************************************)
\* on_open wired to the save hook
Hooks_on_open_as_save(path) ==
  [hook |-> "on_save", args |-> <<path>>, kwargs |-> {}]

Hooks_on_open(path) == [hook |-> "on_open", args |-> <<path>>, kwargs |-> {}]

Hooks_on_save(path) == [hook |-> "on_save", args |-> <<path>>, kwargs |-> {}]

Hooks_on_event(name) ==
  [hook |-> "on_event", args |-> << >>, kwargs |-> {<<"name", name>>}]

(***************************************************************************)
(* State machine                                                           *)
(***************************************************************************)
\* all orders in which iterdir can yield the entries S
RECURSIVE Orders(_)
Orders(S) ==
  IF S = {} THEN {<< >>}
  ELSE UNION {{<<x>> \o o : o \in Orders(S \ {x})} : x \in S}

\* the entry an iteration order begins with, if any
First(order) == IF order = << >> THEN << >> ELSE <<Head(order)>>

\* what the plugins root holds when the editor starts
InitialDisks ==
  { << >>,
    ("a" :> [isDir |-> FALSE, src |-> "none"]),
    ("a_1" :> [isDir |-> TRUE, src |-> "pkgNoMain"]),
    ("c" :> [isDir |-> TRUE, src |-> "pkgBadExec"]),
    ("c" :> [isDir |-> TRUE, src |-> "pkgNoRegister"]) }

\* the call field of an operation that dispatches no hook
NoCall == [hook |-> "", args |-> << >>, kwargs |-> {}]

\* what is observed of the latest operation: its name and argument (for
\* load_all the entry iterdir yielded first), what a Hooks method handed
\* to call_hook, the error raised ("none" if it returned), the callback
\* invocations made, the path install returned and the names the plugin
\* table held when the operation began; for an uninstall that comes right
\* after an uninstall of the same name, repeats is the error that one
\* ended with ("" for every other operation)
Last(op, arg, call, err, log, dest, pre) ==
  [op |-> op, arg |-> arg, call |-> call, err |-> err, log |-> log,
   dest |-> dest, pre |-> pre, repeats |-> ""]

\* PluginManager.__init__
Init ==
  /\ disk \in InitialDisks
  /\ \E order \in Orders(DOMAIN disk) :
       /\ plugins = load_all_plugins(<< >>, disk, order)
       /\ last = Last("init", << >>, NoCall, "none", << >>, << >>, {})

\* a single load_plugin_from_dir(path) on an entry of the root
LoadPluginFromDir ==
  \E n \in DOMAIN disk :
    LET r == load_plugin_from_dir(plugins, disk, Join(PLUGINS_DIR, n))
    IN  /\ plugins' = r.plugins
        /\ disk' = disk
        /\ last' = Last("load", n, NoCall, r.err, << >>, << >>,
                        Names(plugins))

\* Scriptor.reload_plugins
LoadAll ==
  /\ \E order \in Orders(DOMAIN disk) :
       /\ plugins' = load_all_plugins(plugins, disk, order)
       /\ last' = Last("load_all", First(order), NoCall, "none",
                       << >>, << >>, Names(plugins))
  /\ disk' = disk

\* the install of scpl gets as far as extracting the archive
Extracts(scpl) == scpl.exists /\ MAIN \in Content(scpl.src).files

\* the entries of the root that an install has extracted
Installed(d) ==
  {n \in DOMAIN d : \E scpl \in Archives : Extracts(scpl) /\ scpl.src = d[n].src}

\* Scriptor.install_plugin
Install ==
  \E scpl \in Archives :
    LET r == install_plugin(plugins, disk, scpl)
    IN  /\ Cardinality(Installed(r.disk) \cup Names(r.plugins)) <= MaxInstalled
        /\ plugins' = r.plugins
        /\ disk' = r.disk
        /\ last' = Last("install", scpl, NoCall, r.err, << >>, r.dest,
                        Names(plugins))

\* the names an uninstall is tried with: the loaded ones, the entries of
\* the root, a name that is neither, and the name of the uninstall that
\* has just been made
UninstallNames ==
  Names(plugins) \cup DOMAIN disk \cup {"zz"}
    \cup (IF last.op = "uninstall" THEN {last.arg} ELSE {})

\* Scriptor.uninstall_plugin, with any name
Uninstall ==
  \E name \in UninstallNames :
    LET r == uninstall_plugin(plugins, disk, name)
    IN  /\ plugins' = r.plugins
        /\ disk' = r.disk
        /\ last' = [Last("uninstall", name, NoCall, r.err, << >>, << >>,
                         Names(plugins))
                      EXCEPT !.repeats =
                        IF last.op = "uninstall" /\ last.arg = name
                        THEN last.err ELSE ""]

\* a method of the Hooks adapter called with arg: call is what it hands to
\* call_hook
Dispatch(op, arg, call) ==
  LET r == call_hook(plugins, call.hook, call.args, call.kwargs)
  IN  /\ last' = Last(op, arg, call, r.err, r.log, << >>, Names(plugins))
      /\ UNCHANGED <<disk, plugins>>

\* Scriptor.open_file
OnOpen == \E p \in Paths : Dispatch("on_open", p, Hooks_on_open(p))

\* Scriptor.save_file, Scriptor.save_file_as
OnSave == \E p \in Paths : Dispatch("on_save", p, Hooks_on_save(p))

\* Hooks.on_event
OnEvent == \E n \in {"ev"} : Dispatch("on_event", n, Hooks_on_event(n))

\* the user deletes an entry of the plugins root by hand
ManualDelete ==
  \E n \in DOMAIN disk :
    /\ disk' = Without(disk, n)
    /\ plugins' = plugins
    /\ last' = Last("manual_delete", n, NoCall, "none", << >>, << >>,
                    Names(plugins))

Next ==
  \/ LoadAll
  \/ LoadPluginFromDir
  \/ Install
  \/ Uninstall
  \/ OnOpen
  \/ OnSave
  \/ OnEvent
  \/ ManualDelete

Spec == Init /\ [][Next]_vars

(***************************************************************************)
(* Properties                                                              *)
(***************************************************************************)
DispatchOps == {"on_open", "on_save", "on_event"}

\* the callbacks record r holds for hook h, in order
HooksFor(r, h) == IF h \in DOMAIN r.hooks THEN r.hooks[h] ELSE << >>

\* the invocations of log made on behalf of plugin name
LogOf(log, name) == SelectSeq(log, LAMBDA e : e.plugin = name)

\* the callbacks a register script attaches to hook h, in order
RegisteredBy(script, h) ==
  LET s == SelectSeq(script, LAMBDA x : x[1] = h)
  IN  [j \in 1..Len(s) |-> s[j][2]]

\* the directory n of root d satisfies all that a load asks for
ValidDir(d, n) ==
  /\ n \in DOMAIN d
  /\ d[n].isDir
  /\ MAIN \in Content(d[n].src).files
  /\ Content(d[n].src).exec = "ok"
  /\ Content(d[n].src).hasRegister
  /\ ~Content(d[n].src).regRaises

\* C1: when a callback registered for the dispatched hook raises, the
\* dispatch still returns without an error and every callback registered
\* for the hook, of the same plugin and of every other plugin, was invoked.
C1_CallbackFailuresIsolated ==
  ( /\ last.op \in DispatchOps
    /\ \E i \in 1..Len(plugins) :
         \E j \in 1..Len(HooksFor(plugins[i], last.call.hook)) :
           HooksFor(plugins[i], last.call.hook)[j] \in RaisingCallbacks )
  => /\ last.err = "none"
     /\ \A i \in 1..Len(plugins) :
          LET fs == HooksFor(plugins[i], last.call.hook)
              lg == LogOf(last.log, plugins[i].name)
          IN  /\ Len(lg) = Len(fs)
              /\ \A j \in 1..Len(fs) : lg[j].f = fs[j]

\* a dispatch in which a callback raised and was followed by a callback of
\* the same plugin and by a callback of another plugin
C1_Witness ==
  /\ last.op \in DispatchOps
  /\ \E k, m, n \in 1..Len(last.log) :
       /\ k < m /\ k < n
       /\ last.log[k].raised
       /\ last.log[m].plugin = last.log[k].plugin
       /\ last.log[n].plugin # last.log[k].plugin

\* the plugins whose load has just succeeded in the current state
JustLoaded ==
  IF last.op = "install"
  THEN IF last.err = "none" THEN {PathName(last.dest)} ELSE {}
  ELSE IF last.op = "load"
  THEN IF last.err = "none" THEN {last.arg} ELSE {}
  ELSE IF last.op \in {"load_all", "init"}
  THEN {n \in DOMAIN disk : ValidDir(disk, n)}
  ELSE {}

\* C2: a dispatch that follows a successful load of a directory invokes the
\* callbacks the directory's register attached to the hook, in the order
\* of registration, once per registration, each with the arguments of the
\* dispatch; a plugin with no callback for the hook adds nothing.
C2_LoadThenDispatch ==
  [][ last'.op \in DispatchOps =>
        \A n \in JustLoaded :
          LET fs == RegisteredBy(Content(disk[n].src).script, last'.call.hook)
              lg == LogOf(last'.log, n)
          IN  /\ last'.err = "none"
              /\ Len(lg) = Len(fs)
              /\ \A j \in 1..Len(fs) :
                   /\ lg[j].f = fs[j]
                   /\ lg[j].args = last'.call.args
                   /\ lg[j].kwargs = last'.call.kwargs ]_vars

\* a dispatch that invoked one callback twice for one plugin and skipped
\* a loaded plugin that has no callback for the hook
C2_Witness ==
  /\ last.op \in DispatchOps
  /\ \E k, m \in 1..Len(last.log) :
       /\ k < m
       /\ last.log[k].plugin = last.log[m].plugin
       /\ last.log[k].f = last.log[m].f
       /\ ValidDir(disk, last.log[k].plugin)
  /\ \E i \in 1..Len(plugins) : LogOf(last.log, plugins[i].name) = << >>

\* base_k, the name install tries at its k-th attempt
Suffixed(base, k) == base \o "_" \o ToString(k)


\* C3: an install whose base name is taken under the plugins root extracts
\* into base_k for the smallest k >= 1 that is free, leaves every existing
\* entry as it was, and leaves the record of the plugin named base, if it
\* is loaded, in the table with the same hooks, still dispatched.
C3_CollisionGetsSuffix ==
  [][ ( /\ last'.op = "install"
        /\ Extracts(last'.arg)
        /\ last'.arg.stem \in DOMAIN disk )
      => LET base == last'.arg.stem
             new  == PathName(last'.dest)
         IN  /\ last'.dest = Join(PLUGINS_DIR, new)
             /\ \E k \in 1..(Cardinality(DOMAIN disk) + 1) :
                  /\ new = Suffixed(base, k)
                  /\ new \notin DOMAIN disk
                  /\ \A j \in 1..(k - 1) : Suffixed(base, j) \in DOMAIN disk
             /\ \A n \in DOMAIN disk : n \in DOMAIN disk' /\ disk'[n] = disk[n]
             /\ disk'[new] = [isDir |-> TRUE, src |-> last'.arg.src]
             /\ Has(plugins, base) =>
                  /\ Has(plugins', base)
                  /\ Get(plugins', base) = Get(plugins, base)
                  /\ \A h \in HookNames :
                       LET lg == LogOf(call_hook(plugins', h, << >>, {}).log, base)
                           fs == HooksFor(Get(plugins, base), h)
                       IN  /\ Len(lg) = Len(fs)
                           /\ \A j \in 1..Len(fs) : lg[j].f = fs[j] ]_vars

\* an install that found base and base_1 taken and went to base_2 while
\* the plugin named base stayed loaded
C3_Witness ==
  /\ last.op = "install"
  /\ last.err = "none"
  /\ PathName(last.dest) = Suffixed(last.arg.stem, 2)
  /\ Has(plugins, last.arg.stem)
  /\ Get(plugins, last.arg.stem).hooks # << >>
  /\ ValidDir(disk, last.arg.stem)

\* C4: a successful install adds a record under a name the plugin table
\* did not hold before, and every record held before is still there with
\* the same hooks.
C4_InstallNeverOverwrites ==
  [][ (last'.op = "install" /\ last'.err = "none")
      => /\ ~Has(plugins, PathName(last'.dest))
         /\ Has(plugins', PathName(last'.dest))
         /\ \A i \in 1..Len(plugins) :
              /\ Has(plugins', plugins[i].name)
              /\ Get(plugins', plugins[i].name) = plugins[i] ]_vars

\* C5: a load of a directory that lacks plugin-main.py, whose top-level
\* execution raises, that has no register, or whose register raises, ends
\* with an error, leaves the plugin table as it was and leaves the
\* directory on disk.
C5_FailedLoadAddsNoRecord ==
  [][ /\ (last'.op = "load" /\ ~ValidDir(disk, last'.arg))
         => /\ last'.err # "none"
            /\ plugins' = plugins
            /\ disk' = disk
      /\ (last'.op = "install" /\ Extracts(last'.arg)
          /\ ~ValidDir(disk', PathName(last'.dest)))
         => /\ last'.err # "none"
            /\ plugins' = plugins
            /\ PathName(last'.dest) \in DOMAIN disk'
            /\ disk'[PathName(last'.dest)].isDir ]_vars

\* a load that failed in register, after register_hook calls, for a
\* directory that is on disk and has no record
C5_Witness ==
  /\ last.op \in {"load", "install"}
  /\ last.err = "RuntimeError: register failed"
  /\ \E n \in DOMAIN disk :
       /\ disk[n].isDir
       /\ Content(disk[n].src).regRaises
       /\ Content(disk[n].src).script # << >>
       /\ ~Has(plugins, n)

\* C6: uninstall of a name the plugin table does not hold fails with
\* KeyError and leaves the plugin table and the plugins root as they were.
C6_UninstallUnknown ==
  [][ (last'.op = "uninstall" /\ ~Has(plugins, last'.arg))
      => /\ last'.err = "KeyError"
         /\ plugins' = plugins
         /\ disk' = disk ]_vars

\* an uninstall of a name that has no record but has a directory, left by
\* a failed load
C6_Witness ==
  /\ last.op = "uninstall"
  /\ last.err = "KeyError"
  /\ last.arg \in DOMAIN disk
  /\ disk[last.arg].isDir
  /\ plugins # << >>

\* C7: a successful uninstall removes the record and the directory of the
\* plugin and leaves the other records and entries as they were; the next
\* dispatch invokes no callback of the plugin and the next load_all does
\* not load it.
C7_UninstallRemoves ==
  [][ /\ (last'.op = "uninstall" /\ last'.err = "none")
         => /\ Has(plugins, last'.arg)
            /\ ~Has(plugins', last'.arg)
            /\ last'.arg \in DOMAIN disk
            /\ DOMAIN disk' = (DOMAIN disk) \ {last'.arg}
            /\ \A n \in DOMAIN disk' : disk'[n] = disk[n]
            /\ Len(plugins') = Len(plugins) - 1
            /\ \A i \in 1..Len(plugins) :
                 plugins[i].name # last'.arg =>
                   /\ Has(plugins', plugins[i].name)
                   /\ Get(plugins', plugins[i].name) = plugins[i]
      /\ (last.op = "uninstall" /\ last.err = "none" /\ last'.op \in DispatchOps)
         => LogOf(last'.log, last.arg) = << >>
      /\ (last.op = "uninstall" /\ last.err = "none" /\ last'.op = "load_all")
         => ~Has(plugins', last.arg) ]_vars

\* a successful uninstall of one of two loaded plugins
C7_Witness ==
  /\ last.op = "uninstall"
  /\ last.err = "none"
  /\ last.arg \in last.pre
  /\ ~Has(plugins, last.arg)
  /\ last.arg \notin DOMAIN disk
  /\ \E i \in 1..Len(plugins) :
       plugins[i].hooks # << >> /\ ValidDir(disk, plugins[i].name)

\* C8: load_all raises nothing and leaves in the plugin table exactly the
\* subdirectories of the plugins root whose load succeeds, wherever the
\* failing ones come in the iteration.
C8_LoadAllIsolatesFailures ==
  [][ last'.op = "load_all"
      => /\ last'.err = "none"
         /\ disk' = disk
         /\ Names(plugins') = {n \in DOMAIN disk : ValidDir(disk, n)}
         /\ Len(plugins') = Cardinality(Names(plugins'))
         /\ \A i \in 1..Len(plugins') :
              \A h \in HookNames :
                HooksFor(plugins'[i], h) =
                  RegisteredBy(Content(disk[plugins'[i].name].src).script, h) ]_vars

\* a load_all that met a failing directory first and loaded a directory
\* that came after it
C8_Witness ==
  /\ last.op = "load_all"
  /\ last.arg # << >>
  /\ disk[last.arg[1]].isDir
  /\ ~ValidDir(disk, last.arg[1])
  /\ plugins # << >>

\* C9: a load_all run while the directory of a loaded plugin is gone from
\* disk raises nothing and leaves the plugin out of the table, so that a
\* dispatch invokes none of its callbacks.
C9_ReloadAfterManualDelete ==
  [][ last'.op = "load_all"
      => \A n \in Names(plugins) \ DOMAIN disk :
           /\ last'.err = "none"
           /\ ~Has(plugins', n)
           /\ \A h \in HookNames :
                LogOf(call_hook(plugins', h, << >>, {}).log, n) = << >> ]_vars

\* a load_all that began with a record whose directory had been deleted
\* and ended without it, another plugin staying loaded
C9_Witness ==
  /\ last.op = "load_all"
  /\ \E n \in last.pre : n \notin DOMAIN disk /\ ~Has(plugins, n)
  /\ plugins # << >>

\* how often f occurs in the sequence fs
Count(fs, f) == Cardinality({j \in 1..Len(fs) : fs[j] = f})

\* C10: Hooks.on_open(p) and Hooks.on_save(p) are call_hook with the hook
\* name "on_open" and "on_save" and the argument p; after a successful
\* install, such a call invokes each callback the package registered for
\* that hook once per registration, with the argument p.
C10_InstallBridgeRoundTrip ==
  [][ last'.op \in {"on_open", "on_save"}
      => LET p == last'.arg
             r == call_hook(plugins, last'.op, <<p>>, {})
         IN  /\ last'.call = [hook |-> last'.op, args |-> <<p>>, kwargs |-> {}]
             /\ last'.log = r.log
             /\ last'.err = r.err
             /\ (last.op = "install" /\ last.err = "none") =>
                  LET n  == PathName(last.dest)
                      fs == RegisteredBy(Content(last.arg.src).script, last'.op)
                  IN  \A f \in Callbacks :
                        Cardinality({j \in 1..Len(last'.log) :
                                       /\ last'.log[j].plugin = n
                                       /\ last'.log[j].f = f
                                       /\ last'.log[j].args = <<p>>
                                       /\ last'.log[j].kwargs = {}})
                          = Count(fs, f) ]_vars

\* an on_open("/tmp/f.py") that reached a callback of an installed plugin
\* with that path
C10_Witness ==
  /\ last.op = "on_open"
  /\ last.arg = "/tmp/f.py"
  /\ \E j \in 1..Len(last.log) :
       /\ last.log[j].args = <<"/tmp/f.py">>
       /\ ValidDir(disk, last.log[j].plugin)
       /\ Count(RegisteredBy(Content(disk[last.log[j].plugin].src).script,
                             "on_open"), last.log[j].f) = 1

\* C11: an install of a path that does not exist, or of an archive without
\* plugin-main.py at its root, ends with an error, creates nothing under
\* the plugins root, leaves the plugin table as it was and returns no
\* destination; an install whose load step fails ends with the error of
\* the load step.
C11_RejectedInstallNoEffect ==
  [][ /\ (last'.op = "install" /\ ~Extracts(last'.arg))
         => /\ last'.err # "none"
            /\ disk' = disk
            /\ plugins' = plugins
            /\ last'.dest = << >>
      /\ (last'.op = "install" /\ Extracts(last'.arg)
          /\ ~ValidDir(disk', PathName(last'.dest)))
         => /\ last'.err \in {"FileNotFoundError", "RuntimeError: executing",
                              "RuntimeError: no register",
                              "RuntimeError: register failed"}
            /\ last'.err =
                 load_plugin_from_dir(plugins, disk', last'.dest).err ]_vars

\* an install of an archive without plugin-main.py at its root, refused
\* while a plugin is loaded and the archive's base name is free on disk
C11_Witness ==
  /\ last.op = "install"
  /\ last.err = "RuntimeError: no main in archive"
  /\ MAIN \notin Content(last.arg.src).files
  /\ last.arg.stem \notin DOMAIN disk
  /\ plugins # << >>

\* the directory a load or an install has just tried to load
Target(l) == IF l.op = "install" THEN PathName(l.dest) ELSE l.arg

\* the load or install observed in l failed in register after register had
\* attached at least one callback
PartialRegistration(l, d) ==
  /\ l.op \in {"load", "install"}
  /\ l.err = "RuntimeError: register failed"
  /\ Content(d[Target(l)].src).script # << >>

\* C12 as stated: after a load whose register attached callbacks and then
\* raised, a dispatch on a hook name register had reached invokes the
\* callbacks attached to it before the failure.
C12_PartialRegistrationDispatched ==
  [][ (PartialRegistration(last, disk) /\ last'.op \in DispatchOps)
      => LET fs == RegisteredBy(Content(disk[Target(last)].src).script,
                                last'.call.hook)
             lg == LogOf(last'.log, Target(last))
         IN  \A j \in 1..Len(fs) : \E k \in 1..Len(lg) : lg[k].f = fs[j] ]_vars

\* C12: when register attaches callbacks and then raises, the callbacks
\* stay in the hook map of the Plugin object built for that load, but the
\* object is not put in the plugin table: the table is as it was and a
\* following dispatch invokes nothing for the name unless the table held
\* a record under it before the load.
C12_PartialRegistrationNotStored ==
  [][ /\ PartialRegistration(last', disk')
         => LET n == Target(last')
                r == load_plugin_from_dir(plugins, disk', Join(PLUGINS_DIR, n))
            IN  /\ \A h \in HookNames :
                     HooksFor(r.plugin, h) =
                       RegisteredBy(Content(disk'[n].src).script, h)
                /\ r.plugin.hooks # << >>
                /\ plugins' = plugins
      /\ (PartialRegistration(last, disk) /\ last'.op \in DispatchOps
          /\ Target(last) \notin last.pre)
         => LogOf(last'.log, Target(last)) = << >> ]_vars

\* a dispatch of on_open, with a callback of another plugin invoked, right
\* after a load that failed in register once k1 was attached to on_open
C12_Witness ==
  /\ last.op = "on_open"
  /\ last.log # << >>
  /\ \E n \in DOMAIN disk :
       /\ disk[n].isDir
       /\ Content(disk[n].src).regRaises
       /\ RegisteredBy(Content(disk[n].src).script, "on_open") # << >>
       /\ LogOf(last.log, n) = << >>

\* C13: a load_all that follows a load_all leaves the same plugin names
\* with the same hook maps as the one before it, and after any load_all,
\* and after a single load of a plugin that was already loaded, the hook
\* map of a loaded plugin holds each callback once per registration of
\* its register, so a dispatch invokes it that often.
C13_ReloadIdempotent ==
  [][ /\ (last.op = "load_all" /\ last'.op = "load_all")
         => /\ Names(plugins') = Names(plugins)
            /\ Len(plugins') = Len(plugins)
            /\ \A n \in Names(plugins) : Get(plugins', n) = Get(plugins, n)
      /\ (\/ last'.op = "load_all"
          \/ last'.op = "load" /\ last'.err = "none")
         => \A n \in (IF last'.op = "load" THEN {last'.arg}
                       ELSE Names(plugins')) :
              \A h \in HookNames :
                LET fs == RegisteredBy(Content(disk[n].src).script, h)
                    lg == LogOf(call_hook(plugins', h, << >>, {}).log, n)
                IN  /\ HooksFor(Get(plugins', n), h) = fs
                    /\ [j \in 1..Len(lg) |-> lg[j].f] = fs ]_vars

\* a load_all that began with the plugins it ended with, one of them
\* holding a callback its register attached twice, and holding it twice
C13_Witness ==
  /\ last.op = "load_all"
  /\ last.pre = Names(plugins)
  /\ \E i \in 1..Len(plugins) :
       \E h \in HookNames :
         \E f \in Callbacks :
           /\ Count(RegisteredBy(Content(disk[plugins[i].name].src).script, h), f) = 2
           /\ Count(HooksFor(plugins[i], h), f) = 2

\* the operations of the manager alone: nothing else touches the root
NextManaged ==
  \/ LoadAll
  \/ LoadPluginFromDir
  \/ Install
  \/ Uninstall
  \/ OnOpen
  \/ OnSave
  \/ OnEvent

SpecManaged == Init /\ [][NextManaged]_vars

\* C14: as long as only the manager changes the plugins root, the plugin
\* table holds one record per name, and every record's path is the plugins
\* root joined with its name and is a directory on disk that contains
\* plugin-main.py.
C14_RegistryDiskConsistent ==
  /\ Len(plugins) = Cardinality(Names(plugins))
  /\ \A i \in 1..Len(plugins) :
       LET r == plugins[i]
       IN  /\ PathName(r.path) = r.name
           /\ r.path = Join(PLUGINS_DIR, r.name)
           /\ IsDir(disk, r.path)
           /\ MAIN \in DirFiles(disk, r.path)

\* a plugin is loaded while a directory that a failed install left under
\* the root, with plugin-main.py in it, has no record
C14_Witness ==
  /\ plugins # << >>
  /\ \E n \in DOMAIN disk :
       /\ n \in Installed(disk)
       /\ MAIN \in DirFiles(disk, Join(PLUGINS_DIR, n))
       /\ ~Has(plugins, n)

\* C15: an uninstall of a loaded plugin whose directory is gone from disk
\* ends with the error of the deletion and without the record, the other
\* records and the root staying as they were; a dispatch that follows
\* invokes no callback of the plugin and a second uninstall of the name
\* ends with KeyError.
C15_UninstallPopsBeforeDelete ==
  [][ /\ (last'.op = "uninstall" /\ Has(plugins, last'.arg)
          /\ last'.arg \notin DOMAIN disk)
         => /\ last'.err = "FileNotFoundError"
            /\ ~Has(plugins', last'.arg)
            /\ plugins' = DictPop(plugins, last'.arg)
            /\ disk' = disk
            /\ \A h \in HookNames :
                 LogOf(call_hook(plugins', h, << >>, {}).log, last'.arg) = << >>
      /\ (last.op = "uninstall" /\ last.err = "FileNotFoundError"
          /\ last'.op \in DispatchOps)
         => LogOf(last'.log, last.arg) = << >>
      /\ (last.op = "uninstall" /\ last.err = "FileNotFoundError"
          /\ last'.op = "uninstall" /\ last'.arg = last.arg)
         => /\ last'.err = "KeyError"
            /\ plugins' = plugins
            /\ disk' = disk ]_vars

\* a second uninstall of a name, ended with KeyError, right after the
\* uninstall of that name that failed to delete the directory and left no
\* record, another plugin staying loaded
C15_Witness ==
  /\ last.op = "uninstall"
  /\ last.err = "KeyError"
  /\ last.repeats = "FileNotFoundError"
  /\ last.arg \notin last.pre
  /\ last.arg \notin DOMAIN disk
  /\ ~Has(plugins, last.arg)
  /\ plugins # << >>

====
